---- MODULE Spec2Model ----
(***************************************************************************)
(* Model of steamlit.py: a Streamlit script that takes two zip archives of  *)
(* PDFs, matches the files by file name (the account), merges every matched *)
(* pair with PyPDF2, copies form-field properties back onto the merged      *)
(* document by field name, and packs the results into merged_pdfs.zip.      *)
(*                                                                         *)
(* Two specifications:                                                     *)
(*   SpecPdf  preserve_fields_and_merge_pdfs on one pair of documents,      *)
(*            stepped page by page;                                        *)
(*   Spec     the 'Merge PDFs' handler of main with merge_pdfs_by_account,  *)
(*            stepped account by account.                                  *)
(***************************************************************************)
EXTENDS Integers, Sequences, FiniteSets, TLC

VARIABLES
    \* ---- preserve_fields_and_merge_pdfs (SpecPdf) ----
    pdfPc,          \* position in preserve_fields_and_merge_pdfs
    first_pdf,      \* PdfReader(first_pdf_path)
    second_pdf,     \* PdfReader(second_pdf_path)
    all_fields,     \* dict: field name -> extracted properties
    output_pdf,     \* the file at output_pdf_path: NoFile or a sequence of pages
    merged_pdf,     \* PdfReader(output_pdf_path).pages, annotations mutated in place
    writer,         \* PdfWriter pages added so far
    page_num,       \* index of the next page of merged_pdf to process
    field_props,    \* the local field_props, carried from one annotation to the next
    \* ---- main / merge_pdfs_by_account (Spec) ----
    pc,             \* position in the 'Merge PDFs' handler
    first_zip_file, \* uploaded first archive
    second_zip_file,\* uploaded second archive
    cwd,            \* fixed names that exist in the working directory
    merged_files,   \* accounts whose <account>.pdf exists in the working directory
    first_temp,     \* files of first_temp (dict file name -> content)
    second_temp,    \* files of second_temp
    todo,           \* accounts of first_pdfs the loop has not visited yet
    zipEntries,     \* arcnames written to output_zip, in order
    processed_count,
    total_count,
    progress,       \* the progress updates: account, processed_count, total_count
    messages,       \* the st.warning / st.error calls: kind and account
    calls,          \* accounts preserve_fields_and_merge_pdfs was called for, in order
    output_bound,   \* main: output_zip_path has been assigned
    returned,       \* merge_pdfs_by_account returned output_zip
    cleanupRaised   \* the finally block of main raised

pvars == <<pdfPc, first_pdf, second_pdf, all_fields, output_pdf, merged_pdf,
           writer, page_num, field_props>>
bvars == <<pc, first_zip_file, second_zip_file, cwd, merged_files, first_temp, second_temp,
           todo, zipEntries, processed_count, total_count, progress, messages,
           calls, output_bound, returned, cleanupRaised>>
vars == <<pvars, bvars>>

(***************************************************************************)
(* Bounds                                                                  *)
(***************************************************************************)
MaxPages == 2      \* pages per source document
MaxAnnots == 2     \* annotations in the two source documents together
MaxAccounts == 2   \* distinct file stems in the archives

(***************************************************************************)
(* Python values                                                           *)
(***************************************************************************)
\* Python's None: a value of its own, not the string "None".
None == "<None>"
\* An empty dict.
EmptyDict == [x \in {} |-> None]

\* str(x) as used on field names: str(None) is the four letters None.
str(x) == IF x = None THEN "None" ELSE x

\* Python truthiness of a field name: None and the empty string are falsy.
Truthy(x) == x # None /\ x # ""

\* d.update(e): the entries of e win.
Update(d, e) == e @@ d

(***************************************************************************)
(* PDF objects                                                             *)
(***************************************************************************)
\* The ten keys get_field_properties reads.
Props == {"/T", "/V", "/FT", "/Ff", "/AP", "/AS", "/DA", "/F", "/Q", "/Rect"}

\* annotation.get(k): None when the key is absent.
MkAnnot(t, v, ff) ==
    [k \in Props |-> CASE k = "/T" -> t [] k = "/V" -> v [] k = "/Ff" -> ff
                       [] OTHER -> None]

\* The annotations the source documents are built from: a text field with two
\* different values, a link annotation without /T, and a field whose name is
\* the word None.
SampleAnnots ==
    { MkAnnot("Telephone No", "v1", None),
      MkAnnot("Telephone No", "v2", "1"),
      MkAnnot(None, None, None),
      MkAnnot("None", "v1", None) }

\* pdf.get_form_text_fields() of a source document.
SampleForms == { EmptyDict, ("Telephone No" :> "v2"), ("None" :> "v2") }

get_field_properties(annotation) ==
    [k \in Props |->
        IF k = "/T"
        THEN IF Truthy(annotation["/T"]) THEN str(annotation["/T"])
             ELSE annotation["/T"]
        ELSE annotation[k]]

\* Method 1 of extract_fields_from_pdf on the annotations of one page.
RECURSIVE ExtractAnnots(_, _)
ExtractAnnots(fields, annots) ==
    IF annots = <<>> THEN fields
    ELSE LET annot == Head(annots)
             next == IF Truthy(annot["/T"])
                     THEN Update(fields, str(annot["/T"]) :> get_field_properties(annot))
                     ELSE fields
         IN ExtractAnnots(next, Tail(annots))

\* Method 2 of extract_fields_from_pdf: AcroForm text fields not found yet.
ExtractForm(fields, form) ==
    [n \in DOMAIN fields \cup DOMAIN form |->
        IF n \in DOMAIN fields THEN fields[n]
        ELSE [k \in Props |-> CASE k = "/T" -> n [] k = "/V" -> form[n]
                                [] OTHER -> None]]

RECURSIVE ExtractPages(_, _, _)
ExtractPages(fields, pages, form) ==
    IF pages = <<>> THEN fields
    ELSE ExtractPages(ExtractForm(ExtractAnnots(fields, Head(pages).annots), form),
                      Tail(pages), form)

extract_fields_from_pdf(pdf) == ExtractPages(EmptyDict, pdf.pages, pdf.form)

problematic_fields ==
    ("Names and status of applicant if other than assessed owner" :> "Names_and_status")
    @@ ("Telephone No" :> "TelephoneNo")
    @@ ("Names_and_status_of_applicant" :>
            "Names and status of applicant if other than assessed owner")
    @@ ("Telephone_Number" :> "Telephone No")

ProblematicValues == {problematic_fields[k] : k \in DOMAIN problematic_fields}

\* all_fields after the two update calls: the second document's records win.
AllFields(first_fields, second_fields) ==
    Update(Update(EmptyDict, first_fields), second_fields)

\* PdfMerger.append twice and write: the pages of the first document followed
\* by the pages of the second.
MergedPages(first, second) == first.pages \o second.pages

\* The lookup of lines 126-139. carried is the local field_props as the
\* previous annotations left it: <<>> while unassigned, else <<record>>.
\* skip is the continue of line 139; a branch that assigns nothing leaves
\* carried as it is.
LookupProps(field_name, fields, carried) ==
    IF field_name \in DOMAIN fields
    THEN [skip |-> FALSE, props |-> <<fields[field_name]>>]
    ELSE IF field_name \in DOMAIN problematic_fields
    THEN LET alt_name == problematic_fields[field_name]
         IN [skip |-> FALSE,
             props |-> IF alt_name \in DOMAIN fields THEN <<fields[alt_name]>>
                       ELSE carried]
    ELSE IF field_name \in ProblematicValues
    THEN LET original_name ==
                 CHOOSE k \in DOMAIN problematic_fields :
                     problematic_fields[k] = field_name
         IN [skip |-> FALSE,
             props |-> IF original_name \in DOMAIN fields
                       THEN <<fields[original_name]>> ELSE carried]
    ELSE [skip |-> TRUE, props |-> carried]

\* Lines 141-148: copy the non-None properties, then default /Ff to 0.
ApplyProps(annot, props) ==
    LET copied == [k \in Props |-> IF props[k] # None THEN props[k] ELSE annot[k]]
    IN [copied EXCEPT !["/Ff"] = IF @ = None THEN "0" ELSE @]

\* The inner loop (lines 116-148) over the annotations of a page. Result: the
\* annotations as the loop leaves them, field_props, and whether reading an
\* unassigned field_props raised (UnboundLocalError at line 142).
RECURSIVE ReinsertAnnots(_, _, _, _)
ReinsertAnnots(annots, done, fields, carried) ==
    IF annots = <<>> THEN [annots |-> done, props |-> carried, raised |-> FALSE]
    ELSE LET annot == Head(annots)
             field_name == str(annot["/T"])
             found == LookupProps(field_name, fields, carried)
         IN IF found.skip
            THEN ReinsertAnnots(Tail(annots), Append(done, annot), fields, carried)
            ELSE IF found.props = <<>>
            THEN [annots |-> done \o annots, props |-> carried, raised |-> TRUE]
            ELSE ReinsertAnnots(Tail(annots),
                                Append(done, ApplyProps(annot, found.props[1])),
                                fields, found.props)

\* Variant of ReinsertOnePage with writer.add_page inside the
\* if page.get('/Annots') block.
ReinsertOnePageAnnotatedOnly(page, fields, carried) ==
    LET r == ReinsertAnnots(page.annots, <<>>, fields, carried)
    IN [page |-> [page EXCEPT !.annots = r.annots],
        add |-> ~r.raised /\ page.annots # <<>>,
        props |-> r.props, raised |-> r.raised]

\* Lines 113-150 for one page: the page is added to the writer whether or not
\* it has annotations.
ReinsertOnePage(page, fields, carried) ==
    LET r == ReinsertAnnots(page.annots, <<>>, fields, carried)
    IN [page |-> [page EXCEPT !.annots = r.annots],
        add |-> ~r.raised, props |-> r.props, raised |-> r.raised]

\* The whole outer loop (lines 113-150), for callers that need the result only.
RECURSIVE ReinsertPages(_, _, _, _)
ReinsertPages(pages, added, fields, carried) ==
    IF pages = <<>> THEN [pages |-> added, raised |-> FALSE]
    ELSE LET r == ReinsertOnePage(Head(pages), fields, carried)
         IN IF r.raised THEN [pages |-> added, raised |-> TRUE]
            ELSE ReinsertPages(Tail(pages),
                               IF r.add THEN Append(added, r.page) ELSE added,
                               fields, r.props)

(***************************************************************************)
(* Source documents                                                        *)
(***************************************************************************)
NoFile == <<"<no file>">>

AnnotSeqs(n) == UNION {[1..m -> SampleAnnots] : m \in 0..n}

\* Sequences of at most p annotation lists holding at most n annotations.
RECURSIVE AnnotPages(_, _)
AnnotPages(p, n) ==
    IF p = 0 THEN {<<>>}
    ELSE {<<>>} \cup
         UNION { { <<al>> \o rest : rest \in AnnotPages(p - 1, n - Len(al)) }
                 : al \in AnnotSeqs(n) }

\* The number of annotations on a sequence of pages.
RECURSIVE CountAnnots(_)
CountAnnots(pages) ==
    IF pages = <<>> THEN 0 ELSE Len(Head(pages).annots) + CountAnnots(Tail(pages))

\* A document read by PdfReader: its pages (each with an identity and its
\* /Annots, <<>> when the page has none) and its AcroForm text fields.
MkDoc(which, lists, form) ==
    [pages |-> [i \in 1..Len(lists) |-> [id |-> <<which, i>>, annots |-> lists[i]]],
     form |-> form]

NoDoc == [pages |-> <<>>, form |-> EmptyDict]

(***************************************************************************)
(* preserve_fields_and_merge_pdfs, step by step                            *)
(***************************************************************************)
\* main has not been started.
BatchIdle ==
    /\ pc = "idle"
    /\ first_zip_file = EmptyDict /\ second_zip_file = EmptyDict
    /\ cwd = {}
    /\ merged_files = {}
    /\ first_temp = EmptyDict /\ second_temp = EmptyDict
    /\ todo = {}
    /\ zipEntries = <<>>
    /\ processed_count = 0 /\ total_count = 0
    /\ progress = <<>>
    /\ messages = <<>>
    /\ calls = <<>>
    /\ output_bound = FALSE
    /\ returned = FALSE
    /\ cleanupRaised = FALSE

PdfIdle ==
    /\ pdfPc = "idle"
    /\ first_pdf = NoDoc /\ second_pdf = NoDoc
    /\ all_fields = EmptyDict
    /\ output_pdf = NoFile
    /\ merged_pdf = <<>>
    /\ writer = <<>>
    /\ page_num = 0
    /\ field_props = <<>>

\* Lines 72-73: both files are read.
InitPdf ==
    /\ BatchIdle
    /\ pdfPc = "read"
    /\ \E l1 \in AnnotPages(MaxPages, MaxAnnots), f1 \in SampleForms :
           first_pdf = MkDoc(1, l1, f1)
    /\ \E l2 \in AnnotPages(MaxPages, MaxAnnots - CountAnnots(first_pdf.pages)),
          f2 \in SampleForms :
           second_pdf = MkDoc(2, l2, f2)
    /\ all_fields = EmptyDict
    /\ output_pdf = NoFile
    /\ merged_pdf = <<>>
    /\ writer = <<>>
    /\ page_num = 0
    /\ field_props = <<>>

\* Lines 76-94 and 108-110: the fields of both documents, merged into one dict.
ExtractFields ==
    /\ pdfPc = "read"
    /\ all_fields' = AllFields(extract_fields_from_pdf(first_pdf),
                               extract_fields_from_pdf(second_pdf))
    /\ pdfPc' = "extracted"
    /\ UNCHANGED <<first_pdf, second_pdf, output_pdf, merged_pdf, writer,
                   page_num, field_props>>
    /\ UNCHANGED bvars

\* Lines 96-105: the merged file is written and read back.
MergeAndReload ==
    /\ pdfPc = "extracted"
    /\ output_pdf' = MergedPages(first_pdf, second_pdf)
    /\ merged_pdf' = MergedPages(first_pdf, second_pdf)
    /\ writer' = <<>>
    /\ page_num' = 1
    /\ pdfPc' = "reinsert"
    /\ UNCHANGED <<first_pdf, second_pdf, all_fields, field_props>>
    /\ UNCHANGED bvars

\* Lines 113-150: one iteration of the page loop.
ReinsertPage ==
    /\ pdfPc = "reinsert"
    /\ page_num <= Len(merged_pdf)
    /\ LET r == ReinsertOnePage(merged_pdf[page_num], all_fields, field_props)
       IN /\ merged_pdf' = [merged_pdf EXCEPT ![page_num] = r.page]
          /\ writer' = IF r.add THEN Append(writer, r.page) ELSE writer
          /\ field_props' = r.props
          /\ pdfPc' = IF r.raised THEN "failed" ELSE "reinsert"
          /\ page_num' = IF r.raised THEN page_num ELSE page_num + 1
    /\ UNCHANGED <<first_pdf, second_pdf, all_fields, output_pdf>>
    /\ UNCHANGED bvars

\* Lines 152-162: the writer's pages replace the merged file.
SaveUpdated ==
    /\ pdfPc = "reinsert"
    /\ page_num > Len(merged_pdf)
    /\ output_pdf' = writer
    /\ pdfPc' = "done"
    /\ UNCHANGED <<first_pdf, second_pdf, all_fields, merged_pdf, writer,
                   page_num, field_props>>
    /\ UNCHANGED bvars

\* Lines 159-166: opening or writing the output file raises; the except
\* clause re-raises RuntimeError. A file opened with "wb" is already truncated.
SaveFails ==
    /\ pdfPc = "reinsert"
    /\ page_num > Len(merged_pdf)
    /\ \E truncated \in BOOLEAN :
           output_pdf' = IF truncated THEN <<>> ELSE output_pdf
    /\ pdfPc' = "failed"
    /\ UNCHANGED <<first_pdf, second_pdf, all_fields, merged_pdf, writer,
                   page_num, field_props>>
    /\ UNCHANGED bvars

NextPdf ==
    \/ ExtractFields
    \/ MergeAndReload
    \/ ReinsertPage
    \/ SaveUpdated
    \/ SaveFails

(***************************************************************************)
(* Archives and files                                                      *)
(***************************************************************************)
\* Accounts are the stems of the file names. A file name is <<stem, extension>>,
\* so os.path.splitext(f)[0] is f[1] and f.endswith('.pdf') is f[2] = ".pdf".
Accounts == 1..MaxAccounts
FileNames == (Accounts \X {".pdf"}) \cup {<<1, ".txt">>}

\* What a file holds: nothing (size 0), bytes PdfReader rejects, or a PDF.
\* The .txt file holds a PDF under another extension.
Contents(f) == IF f[2] = ".pdf" THEN {"empty", "corrupt", "pdf"} ELSE {"pdf"}

FileDicts ==
    UNION { { d \in [names -> {"empty", "corrupt", "pdf"}] :
                \A f \in names : d[f] \in Contents(f) }
            : names \in SUBSET FileNames }

\* An uploaded archive: its members, or bytes that are no zip file.
BadZip == [valid |-> FALSE, files |-> EmptyDict]
Archives == {BadZip} \cup {[valid |-> TRUE, files |-> d] : d \in FileDicts}

\* The document a file with content "pdf" holds, in the first and second archive.
SampleDoc(which) ==
    MkDoc(which, << <<MkAnnot("Telephone No", IF which = 1 THEN "v1" ELSE "v2", None)>> >>,
          EmptyDict)

FirstZip == "first_uploaded.zip"
SecondZip == "second_uploaded.zip"
OutputZip == "merged_pdfs.zip"
FirstTemp == "first_temp"
SecondTemp == "second_temp"

\* Variant of ListPdfs that forgets the endswith('.pdf') filter.
ListPdfsAnyExtension(folder) ==
    LET stems == {f[1] : f \in DOMAIN folder}
    IN [a \in stems |-> folder[CHOOSE f \in DOMAIN folder : f[1] = a]]

\* Lines 181-184: dict from stem to the file (here: its content) for the
\* entries of a folder that end in .pdf.
ListPdfs(folder) ==
    LET stems == {f[1] : f \in {g \in DOMAIN folder : g[2] = ".pdf"}}
    IN [a \in stems |-> folder[<<a, ".pdf">>]]

\* Variant of TotalCount that counts the second archive.
TotalCountOfSecond(first_pdfs, second_pdfs) == Cardinality(DOMAIN second_pdfs)

\* Line 187.
TotalCount(first_pdfs, second_pdfs) == Cardinality(DOMAIN first_pdfs)

\* Variant of IsEmptyPair that looks at the first file only.
IsEmptyPairFirstOnly(first_content, second_content) == first_content = "empty"

\* Line 206: os.path.getsize is 0 for either file.
IsEmptyPair(first_content, second_content) ==
    first_content = "empty" \/ second_content = "empty"

\* Variant of ZipWrite that adds no entry to the archive (the write is
\* left out).
ZipWriteNothing(entries, account) == entries

\* Line 216: the entry is named <account>.pdf.
ZipWrite(entries, account) == Append(entries, account)

\* Variant of OnMergeError without the inner try: the exception leaves the
\* loop and merge_pdfs_by_account, and main goes on to its finally block.
OnMergeErrorPropagates(rest) == [todo |-> rest, pc |-> "finally"]

\* Lines 220-221: the error is reported and the loop goes on.
OnMergeError(rest) == [todo |-> rest, pc |-> "loop"]

\* preserve_fields_and_merge_pdfs called on two files. save_fault: writing the
\* updated file (line 159-160) raises. Result: whether it raised, and whether
\* output_pdf_path had been written by then (line 100).
preserve_fields_and_merge_pdfs(first_content, second_content, save_fault) ==
    IF first_content # "pdf" \/ second_content # "pdf"
    THEN [raised |-> TRUE, written |-> FALSE]
    ELSE LET first == SampleDoc(1)
             second == SampleDoc(2)
             fields == AllFields(extract_fields_from_pdf(first),
                                 extract_fields_from_pdf(second))
             r == ReinsertPages(MergedPages(first, second), <<>>, fields, <<>>)
         IN [raised |-> r.raised \/ save_fault, written |-> TRUE]

Msg(kind, account) == [kind |-> kind, account |-> account]

(***************************************************************************)
(* main and merge_pdfs_by_account, step by step                            *)
(***************************************************************************)
first_pdfs == ListPdfs(first_temp)
second_pdfs == ListPdfs(second_temp)

Init ==
    /\ PdfIdle
    /\ pc = "clicked"
    /\ first_zip_file \in Archives
    /\ second_zip_file \in Archives
    /\ cwd = {}
    /\ merged_files = {}
    /\ first_temp = EmptyDict /\ second_temp = EmptyDict
    /\ todo = {}
    /\ zipEntries = <<>>
    /\ processed_count = 0 /\ total_count = 0
    /\ progress = <<>>
    /\ messages = <<>>
    /\ calls = <<>>
    /\ output_bound = FALSE
    /\ returned = FALSE
    /\ cleanupRaised = FALSE

\* Lines 241-252: both uploads are saved and output_zip_path is assigned.
SaveUploads ==
    /\ pc = "clicked"
    /\ cwd' = cwd \cup {FirstZip, SecondZip}
    /\ output_bound' = TRUE
    /\ pc' = "merge"
    /\ UNCHANGED <<first_zip_file, second_zip_file, merged_files, first_temp,
                   second_temp, todo, zipEntries, processed_count, total_count,
                   progress, messages, calls, returned, cleanupRaised>>
    /\ UNCHANGED pvars

\* Lines 246-249 raise (open or write fails) before line 252 is reached:
\* control goes to the finally block with output_zip_path unassigned. at is
\* the file being saved; created tells whether open had created it.
SaveUploadsFails ==
    /\ pc = "clicked"
    /\ \E at \in {FirstZip, SecondZip}, created \in BOOLEAN :
           cwd' = cwd \cup (IF at = SecondZip THEN {FirstZip} ELSE {})
                      \cup (IF created THEN {at} ELSE {})
    /\ pc' = "finally"
    /\ UNCHANGED <<first_zip_file, second_zip_file, merged_files, first_temp,
                   second_temp, todo, zipEntries, processed_count, total_count,
                   progress, messages, calls, output_bound, returned,
                   cleanupRaised>>
    /\ UNCHANGED pvars

\* Lines 170-194: folders made, both archives extracted, the PDFs listed, the
\* output archive opened.
ExtractArchives ==
    /\ pc = "merge"
    /\ first_zip_file.valid /\ second_zip_file.valid
    /\ cwd' = cwd \cup {FirstTemp, SecondTemp, OutputZip}
    /\ first_temp' = first_zip_file.files
    /\ second_temp' = second_zip_file.files
    /\ todo' = DOMAIN ListPdfs(first_zip_file.files)
    /\ processed_count' = 0
    /\ total_count' = TotalCount(ListPdfs(first_zip_file.files),
                                 ListPdfs(second_zip_file.files))
    /\ zipEntries' = <<>>
    /\ pc' = "loop"
    /\ UNCHANGED <<first_zip_file, second_zip_file, merged_files, progress,
                   messages, calls, output_bound, returned, cleanupRaised>>
    /\ UNCHANGED pvars

\* Lines 177-178 raise BadZipFile: the finally of lines 225-228 removes both
\* folders and main reports the error (line 267).
ExtractFails ==
    /\ pc = "merge"
    /\ ~(first_zip_file.valid /\ second_zip_file.valid)
    /\ cwd' = cwd \ {FirstTemp, SecondTemp}
    /\ first_temp' = EmptyDict /\ second_temp' = EmptyDict
    /\ messages' = Append(messages, Msg("main_error", 0))
    /\ pc' = "finally"
    /\ UNCHANGED <<first_zip_file, second_zip_file, merged_files, todo,
                   zipEntries, processed_count, total_count, progress, calls,
                   output_bound, returned, cleanupRaised>>
    /\ UNCHANGED pvars

\* Lines 195-196: an account of the first archive without a file in the second.
SkipUnmatched ==
    /\ pc = "loop"
    /\ \E account \in todo :
        /\ account \notin DOMAIN second_pdfs
        /\ todo' = todo \ {account}
    /\ UNCHANGED <<pc, first_zip_file, second_zip_file, cwd, merged_files,
                   first_temp, second_temp, zipEntries, processed_count,
                   total_count, progress, messages, calls, output_bound,
                   returned, cleanupRaised>>
    /\ UNCHANGED pvars

\* Lines 196-208: a matched account with an empty file.
SkipEmpty ==
    /\ pc = "loop"
    /\ \E account \in todo :
        /\ account \in DOMAIN second_pdfs
        /\ IsEmptyPair(first_pdfs[account], second_pdfs[account])
        /\ processed_count' = processed_count + 1
        /\ progress' = Append(progress, [account |-> account,
                                         processed_count |-> processed_count + 1,
                                         total_count |-> total_count])
        /\ messages' = Append(messages, Msg("warning", account))
        /\ todo' = todo \ {account}
    /\ UNCHANGED <<pc, first_zip_file, second_zip_file, cwd, merged_files,
                   first_temp, second_temp, zipEntries, total_count, calls,
                   output_bound, returned, cleanupRaised>>
    /\ UNCHANGED pvars

\* Lines 196-219: a matched account merged, added to the archive, and its
\* intermediate file removed.
MergeAccount ==
    /\ pc = "loop"
    /\ \E account \in todo :
        /\ account \in DOMAIN second_pdfs
        /\ ~IsEmptyPair(first_pdfs[account], second_pdfs[account])
        /\ ~preserve_fields_and_merge_pdfs(first_pdfs[account],
                                           second_pdfs[account], FALSE).raised
        /\ processed_count' = processed_count + 1
        /\ progress' = Append(progress, [account |-> account,
                                         processed_count |-> processed_count + 1,
                                         total_count |-> total_count])
        /\ calls' = Append(calls, account)
        /\ zipEntries' = ZipWrite(zipEntries, account)
        /\ merged_files' = merged_files \ {account}
        /\ todo' = todo \ {account}
    /\ UNCHANGED <<pc, first_zip_file, second_zip_file, cwd, first_temp,
                   second_temp, total_count, messages, output_bound, returned,
                   cleanupRaised>>
    /\ UNCHANGED pvars

\* Lines 196-221: preserve_fields_and_merge_pdfs raises (unreadable input, or
\* fault "save": writing the updated file fails), or zipf.write raises (fault
\* "zip"). Line 219 is not reached, so a file already written stays.
MergeAccountFails ==
    /\ pc = "loop"
    /\ \E account \in todo, fault \in {"none", "save", "zip"} :
        LET r == preserve_fields_and_merge_pdfs(first_pdfs[account],
                                                second_pdfs[account],
                                                fault = "save")
            after == OnMergeError(todo \ {account})
        IN /\ account \in DOMAIN second_pdfs
           /\ ~IsEmptyPair(first_pdfs[account], second_pdfs[account])
           /\ r.raised \/ fault = "zip"
           /\ processed_count' = processed_count + 1
           /\ progress' = Append(progress, [account |-> account,
                                            processed_count |-> processed_count + 1,
                                            total_count |-> total_count])
           /\ calls' = Append(calls, account)
           /\ merged_files' = IF r.written THEN merged_files \cup {account}
                              ELSE merged_files
           /\ messages' = Append(messages, Msg("error", account))
           /\ todo' = after.todo
           /\ pc' = after.pc
    /\ UNCHANGED <<first_zip_file, second_zip_file, cwd, first_temp, second_temp,
                   zipEntries, total_count, output_bound, returned, cleanupRaised>>
    /\ UNCHANGED pvars

\* Lines 223-228 and 256-265: the loop is over, the archive is closed and
\* returned, the finally removes both folders, main offers the download.
FinishMerge ==
    /\ pc = "loop"
    /\ todo = {}
    /\ returned' = TRUE
    /\ cwd' = cwd \ {FirstTemp, SecondTemp}
    /\ first_temp' = EmptyDict /\ second_temp' = EmptyDict
    /\ pc' = "finally"
    /\ UNCHANGED <<first_zip_file, second_zip_file, merged_files, todo,
                   zipEntries, processed_count, total_count, progress, messages,
                   calls, output_bound, cleanupRaised>>
    /\ UNCHANGED pvars

\* Lines 268-272 with output_zip_path assigned: each of the three files that
\* exists is removed.
Cleanup ==
    /\ pc = "finally"
    /\ output_bound
    /\ cwd' = cwd \ {FirstZip, SecondZip, OutputZip}
    /\ pc' = "done"
    /\ UNCHANGED <<first_zip_file, second_zip_file, merged_files, first_temp,
                   second_temp, todo, zipEntries, processed_count, total_count,
                   progress, messages, calls, output_bound, returned,
                   cleanupRaised>>
    /\ UNCHANGED pvars

\* Line 270 with output_zip_path unassigned: building the list raises
\* UnboundLocalError before any file is removed.
CleanupRaises ==
    /\ pc = "finally"
    /\ ~output_bound
    /\ cleanupRaised' = TRUE
    /\ pc' = "done"
    /\ UNCHANGED <<first_zip_file, second_zip_file, cwd, merged_files, first_temp,
                   second_temp, todo, zipEntries, processed_count, total_count,
                   progress, messages, calls, output_bound, returned>>
    /\ UNCHANGED pvars

Next ==
    \/ SaveUploads
    \/ SaveUploadsFails
    \/ ExtractArchives
    \/ ExtractFails
    \/ SkipUnmatched
    \/ SkipEmpty
    \/ MergeAccount
    \/ MergeAccountFails
    \/ FinishMerge
    \/ Cleanup
    \/ CleanupRaises

(***************************************************************************)
(* Specifications                                                          *)
(***************************************************************************)
Spec == Init /\ [][Next]_vars

SpecPdf == InitPdf /\ [][NextPdf]_vars

(***************************************************************************)
(* Properties of merge_pdfs_by_account and main (checked under Spec)       *)
(***************************************************************************)
\* The stems of the .pdf members of an uploaded archive.
PdfStems(archive) == {f[1] : f \in {g \in DOMAIN archive.files : g[2] = ".pdf"}}
MatchedAccounts == PdfStems(first_zip_file) \cap PdfStems(second_zip_file)
HasEmptyFile(a) ==
    \/ first_zip_file.files[<<a, ".pdf">>] = "empty"
    \/ second_zip_file.files[<<a, ".pdf">>] = "empty"
EntryCount(a) == Cardinality({i \in DOMAIN zipEntries : zipEntries[i] = a})
HasMessage(kind, a) == \E i \in DOMAIN messages : messages[i] = Msg(kind, a)
Called(a) == \E i \in DOMAIN calls : calls[i] = a
\* merge_pdfs_by_account got as far as its loop.
LoopEntered ==
    /\ pc \in {"loop", "finally", "done"}
    /\ output_bound /\ first_zip_file.valid /\ second_zip_file.valid
Visited(a) == LoopEntered /\ a \in PdfStems(first_zip_file) /\ a \notin todo

\* C1 as stated: when merge_pdfs_by_account returns, every account with a
\* .pdf file in both archives has exactly one entry <account>.pdf in the
\* output archive.
C1_EveryMatchedPairHasOneEntry ==
    returned => \A a \in MatchedAccounts : EntryCount(a) = 1

\* C1 amended: when merge_pdfs_by_account returns, a matched account has
\* exactly one entry if both its files are non-empty and its merge and archive
\* write did not raise, and no entry otherwise.
C1_MatchedPairHasOneEntryUnlessSkippedOrFailed ==
    returned =>
        \A a \in MatchedAccounts :
            EntryCount(a) = IF ~HasEmptyFile(a) /\ ~HasMessage("error", a)
                            THEN 1 ELSE 0

C1_Witness ==
    /\ returned
    /\ \E a \in MatchedAccounts : EntryCount(a) = 1
    /\ \E a \in MatchedAccounts : HasEmptyFile(a) /\ EntryCount(a) = 0

\* C2: in every state the output archive holds an entry only for an account
\* with a .pdf file in both archives, and at most one entry per account.
C2_EntriesOnlyForMatchedAccounts ==
    /\ \A i \in DOMAIN zipEntries : zipEntries[i] \in MatchedAccounts
    /\ \A a \in Accounts : EntryCount(a) <= 1

C2_Witness ==
    /\ returned
    /\ Len(zipEntries) >= 1
    /\ \E a \in PdfStems(first_zip_file) \ PdfStems(second_zip_file) :
           EntryCount(a) = 0
    /\ <<1, ".txt">> \in DOMAIN first_zip_file.files \cap DOMAIN second_zip_file.files

\* C4: an account whose merge or archive write raised gets an error message
\* and no entry, every called account ends with an entry or an error message,
\* and once the loop was entered merge_pdfs_by_account returns without
\* raising, having called the merge for every matched non-empty account.
C4_ErrorsDoNotAbortTheBatch ==
    /\ \A a \in Accounts : HasMessage("error", a) => EntryCount(a) = 0 /\ Called(a)
    /\ \A a \in Accounts :
           Called(a) /\ Visited(a) => (EntryCount(a) = 1 \/ HasMessage("error", a))
    /\ (LoopEntered /\ pc \in {"finally", "done"}) =>
           /\ returned
           /\ ~HasMessage("main_error", 0)
           /\ \A a \in MatchedAccounts : ~HasEmptyFile(a) => Called(a)

C4_Witness ==
    /\ returned
    /\ \E i, j \in DOMAIN calls :
           /\ i < j
           /\ HasMessage("error", calls[i])
           /\ EntryCount(calls[j]) = 1

\* C5 as stated: once the handler has finished, none of the temporary folders
\* and archives exists and the cleanup step did not raise.
C5_NothingLeftAfterHandler ==
    pc = "done" => cwd = {} /\ ~cleanupRaised

\* C8: a matched account with an empty file gets the warning, is never passed
\* to preserve_fields_and_merge_pdfs, gets no entry, is counted in
\* processed_count, and the loop goes on to the accounts after it.
C8_EmptyFilesAreSkipped ==
    /\ \A a \in MatchedAccounts :
           (Visited(a) /\ HasEmptyFile(a)) =>
               /\ HasMessage("warning", a)
               /\ ~Called(a)
               /\ EntryCount(a) = 0
               /\ \E i \in DOMAIN progress : progress[i].account = a
    /\ LoopEntered =>
           processed_count = Cardinality({a \in MatchedAccounts : Visited(a)})
    /\ returned => \A a \in MatchedAccounts : ~HasEmptyFile(a) => Called(a)

C8_Witness ==
    /\ returned
    /\ \E i, j \in DOMAIN progress :
           /\ i < j
           /\ HasMessage("warning", progress[i].account)
           /\ EntryCount(progress[j].account) = 1

\* C9: every progress update has 1 <= processed_count <= total_count with
\* total_count the number of .pdf files of the first archive (so the divisor
\* is never 0), the i-th update has processed_count = i, and the value is 1
\* only if every account of the first archive has a match in the second.
C9_ProgressWithinBounds ==
    \A i \in DOMAIN progress :
        /\ progress[i].total_count = Cardinality(PdfStems(first_zip_file))
        /\ 1 <= progress[i].processed_count
        /\ progress[i].processed_count <= progress[i].total_count
        /\ progress[i].processed_count = i
        /\ progress[i].processed_count = progress[i].total_count =>
               PdfStems(first_zip_file) \subseteq PdfStems(second_zip_file)

C9_Witness ==
    /\ Len(progress) >= 2
    /\ progress[Len(progress)].processed_count = progress[Len(progress)].total_count

\* C10 as stated: when merge_pdfs_by_account returns, no intermediate file
\* <account>.pdf is left for any account it processed.
C10_NoIntermediateFileLeft ==
    returned => \A a \in Accounts : Called(a) => a \notin merged_files

(***************************************************************************)
(* Properties of preserve_fields_and_merge_pdfs (checked under SpecPdf)    *)
(***************************************************************************)
\* The pages of the two source documents, in the order PdfMerger appends them.
SourcePages == first_pdf.pages \o second_pdf.pages
PageIds(pages) == [i \in DOMAIN pages |-> pages[i].id]
\* The names under which the claim lets an annotation named t find a record.
NamesFor(t) ==
    IF ~Truthy(t) THEN {}
    ELSE {t}
         \cup {problematic_fields[k] : k \in DOMAIN problematic_fields \cap {t}}
         \cup {k \in DOMAIN problematic_fields : problematic_fields[k] = t}

\* C3 as stated: after a successful merge every named field annotation of the
\* output has each property that its source annotation had, with the source
\* annotation's value.
C3_SourcePropertiesCarriedForward ==
    pdfPc = "done" =>
        \A i \in DOMAIN output_pdf \cap DOMAIN SourcePages :
            \A j \in DOMAIN SourcePages[i].annots :
                LET src == SourcePages[i].annots[j]
                    out == output_pdf[i].annots[j]
                IN Truthy(src["/T"]) =>
                       \A k \in Props : src[k] # None => out[k] = src[k]

\* C6 as stated: an annotation the re-insertion pass has gone over took its
\* properties only from the record under its own name or its alternative
\* name; one without such a record, or without /T, is unchanged; and no
\* annotation makes the merge fail.
C6_PropertiesCopiedByNameOnly ==
    /\ pdfPc \in {"reinsert", "done"} =>
           \A i \in DOMAIN merged_pdf :
               i < page_num =>
                   \A j \in DOMAIN merged_pdf[i].annots :
                       LET src == SourcePages[i].annots[j]
                           out == merged_pdf[i].annots[j]
                           names == NamesFor(src["/T"]) \cap DOMAIN all_fields
                       IN IF names = {} THEN out = src
                          ELSE \E n \in names :
                                   \A k \in Props :
                                       \/ out[k] = src[k]
                                       \/ out[k] = all_fields[n][k]
                                       \/ k = "/Ff" /\ out[k] = "0"
    /\ pdfPc = "failed" => page_num > Len(merged_pdf)

\* C7: the output of a successful merge holds the pages of the first document
\* in order followed by those of the second, as many as the two documents have
\* together; during the re-insertion pass the writer holds exactly the pages
\* gone over so far, in order.
C7_PagesKeptInOrder ==
    /\ pdfPc = "done" =>
           /\ PageIds(output_pdf) = PageIds(first_pdf.pages) \o PageIds(second_pdf.pages)
           /\ Len(output_pdf) = Len(first_pdf.pages) + Len(second_pdf.pages)
    /\ pdfPc = "reinsert" =>
           PageIds(writer) = SubSeq(PageIds(SourcePages), 1, page_num - 1)

C7_Witness ==
    /\ pdfPc = "done"
    /\ Len(first_pdf.pages) = 2 /\ Len(second_pdf.pages) >= 1
    /\ first_pdf.pages[1].annots = <<>>
    /\ first_pdf.pages[2].annots # <<>>
    /\ output_pdf[2].annots # first_pdf.pages[2].annots
====
